---- MODULE Spec2Model ----
(***************************************************************************)
(* Model of the MergeCalls function pass (src/llvm/MergeCallsPass.cpp).    *)
(*                                                                         *)
(* The state is the function being transformed, held as the IR it is:      *)
(* a layout of basic blocks, each a list of instructions, each instruction *)
(* a record with its operands.  The pass is split at the boundaries of its *)
(* loops; the host primitives it calls (splitBasicBlock, DemoteRegToStack, *)
(* moveBefore, replaceAllUsesWith, eraseFromParent) are operators on that  *)
(* IR.  After the pass has run, the input function and the transformed     *)
(* function are executed by a small interpreter, so that what the          *)
(* transformed code computes can be compared with what the input computed. *)
(***************************************************************************)
EXTENDS Integers, Sequences, FiniteSets, TLC

\* Bounds of the model.
MaxSites == 3
MaxRuns == 2
MaxExecSteps == 70

\* callers.size() > 1
MergeThreshold == 1

VARIABLES orig, inp, fn, pc, run, start, todo, funcToInvokers, target, ci,
          callBlock, AllocaInsertionPoint, callerToRet, callerToOrigParent,
          siteInfo, groupInfo, ex, otrace

vars == <<orig, inp, fn, pc, run, start, todo, funcToInvokers, target, ci,
          callBlock, AllocaInsertionPoint, callerToRet, callerToOrigParent,
          siteInfo, groupInfo, ex, otrace>>

-----------------------------------------------------------------------------
(* The IR. *)

\* Operands: the value of an instruction, a constant, the function's argument.
I(n) == [k |-> "i", v |-> n]
C(n) == [k |-> "c", v |-> n]
Arg == [k |-> "a", v |-> 0]

Instr(op, ck, callee, ops, blks, tags) ==
    [op |-> op, ck |-> ck, callee |-> callee, ops |-> ops, blks |-> blks, tags |-> tags]

Call(callee, ops) == Instr("call", "direct", callee, ops, <<>>, <<>>)
AsmCall(ops) == Instr("call", "asm", "", ops, <<>>, <<>>)
PtrCall(ops) == Instr("call", "indirect", "", ops, <<>>, <<>>)
Dec(x) == Instr("dec", "", "", <<x>>, <<>>, <<>>)
Alloca == Instr("alloca", "", "", <<>>, <<>>, <<>>)
Load(p) == Instr("load", "", "", <<p>>, <<>>, <<>>)
Store(v, p) == Instr("store", "", "", <<v, p>>, <<>>, <<>>)
Phi(vals, blks) == Instr("phi", "", "", vals, blks, <<>>)
Br(b) == Instr("br", "", "", <<>>, <<b>>, <<>>)
CondBr(c, t, e) == Instr("condbr", "", "", <<c>>, <<t, e>>, <<>>)
Switch(c, blks, tags) == Instr("switch", "", "", <<c>>, blks, tags)
Ret == Instr("ret", "", "", <<>>, <<>>, <<>>)
BitCast == Instr("bitcast", "", "", <<C(0)>>, <<>>, <<>>)

\* Function::isIntrinsic and Function::arg_size of the callees the inputs name.
Intrinsics == {"llvm.ctpop"}
isIntrinsic(t) == t \in Intrinsics
arg_size(t) == CASE t = "g0" -> 0 [] t = "h" -> 2 [] OTHER -> 1

InsertAt(s, p, e) == SubSeq(s, 1, p - 1) \o <<e>> \o SubSeq(s, p, Len(s))
RemoveAt(s, p) == SubSeq(s, 1, p - 1) \o SubSeq(s, p + 1, Len(s))
SetMin(S) == CHOOSE x \in S : \A y \in S : x <= y
Range(s) == {s[p] : p \in DOMAIN s}

Blocks(f) == 1..Len(f.body)
Live(f) == UNION {Range(f.body[b]) : b \in Blocks(f)}
\* Instruction::getParent and the position in the parent.
BlockOf(f, i) == CHOOSE b \in Blocks(f) : i \in Range(f.body[b])
PosOf(f, i) == CHOOSE p \in DOMAIN f.body[BlockOf(f, i)] : f.body[BlockOf(f, i)][p] = i
\* Value::users
Users(f, i) == {u \in Live(f) : I(i) \in Range(f.ins[u].ops)}
getEntryBlock(f) == f.layout[1]
getTerminator(f, b) == f.body[b][Len(f.body[b])]
Successors(f, b) ==
    IF f.body[b] = <<>> THEN {} ELSE Range(f.ins[getTerminator(f, b)].blks)
Predecessors(f, b) == {q \in Blocks(f) : b \in Successors(f, q)}

\* A new instruction rec placed at position p of block b; its id is Len(f.ins) + 1.
AddInst(f, b, p, rec) ==
    [f EXCEPT !.ins = Append(@, rec), !.body[b] = InsertAt(@, p, Len(f.ins) + 1)]
InsertBefore(f, u, rec) == AddInst(f, BlockOf(f, u), PosOf(f, u), rec)
AppendInst(f, b, rec) == AddInst(f, b, Len(f.body[b]) + 1, rec)
eraseFromParent(f, i) == [f EXCEPT !.body[BlockOf(f, i)] = RemoveAt(@, PosOf(f, i))]
moveBefore(f, i, t) ==
    LET g == eraseFromParent(f, i)
    IN  [g EXCEPT !.body[BlockOf(g, t)] = InsertAt(@, PosOf(g, t), i)]
ReplaceOps(f, u, old, new) ==
    [f EXCEPT !.ins[u].ops = [p \in DOMAIN @ |-> IF @[p] = old THEN new ELSE @[p]]]
replaceAllUsesWith(f, old, new) ==
    [f EXCEPT !.ins = [u \in DOMAIN f.ins |->
        [f.ins[u] EXCEPT !.ops = [p \in DOMAIN @ |-> IF @[p] = I(old) THEN I(new) ELSE @[p]]]]]

IsPhi(r) == r.op = "phi"
IsAlloca(r) == r.op = "alloca"
\* The first position of block b, from p on, that holds no PHI / no alloca.
PastPhis(f, b, p) == SetMin({q \in p..Len(f.body[b]) : ~IsPhi(f.ins[f.body[b][q]])})
PastAllocas(f, b) == SetMin({q \in 1..Len(f.body[b]) : ~IsAlloca(f.ins[f.body[b][q]])})
getFirstNonPHI(f, b) == f.body[b][PastPhis(f, b, 1)]

\* BasicBlock::splitBasicBlock(I): the instructions from position p on move to a
\* new block placed after b in the layout, b gets a branch to it, and the PHIs of
\* the successors name the new block instead of b.
splitBasicBlock(f, b, p) ==
    LET nb  == Len(f.body) + 1
        br  == Len(f.ins) + 1
        at  == CHOOSE q \in DOMAIN f.layout : f.layout[q] = b
        tl  == SubSeq(f.body[b], p, Len(f.body[b]))
        suc == Range(f.ins[tl[Len(tl)]].blks)
        fix(r) == IF IsPhi(r)
                  THEN [r EXCEPT !.blks = [q \in DOMAIN @ |-> IF @[q] = b THEN nb ELSE @[q]]]
                  ELSE r
        phis == UNION {Range(f.body[s]) : s \in suc}
    IN  [layout |-> InsertAt(f.layout, at + 1, nb),
         body   |-> Append([f.body EXCEPT ![b] = Append(SubSeq(@, 1, p - 1), br)], tl),
         ins    |-> Append([u \in DOMAIN f.ins |->
                               IF u \in phis THEN fix(f.ins[u]) ELSE f.ins[u]],
                           Br(nb))]

\* llvm::DemoteRegToStack(I, false, AllocaPoint): a slot is declared before the
\* alloca point; every user reads a load of the slot placed before it (for a
\* PHI user: one load per incoming block, before that block's terminator);
\* the value is stored to the slot after its definition, past any PHIs.
\* The users are taken in the order of their ids; the order of the use list
\* decides only how the loads are numbered.  A value without users is erased.
RECURSIVE DemotePhiUse(_, _, _, _, _)
DemotePhiUse(f, i, slot, u, bs) ==
    IF bs = {} THEN f
    ELSE LET ib == SetMin(bs)
             g  == AddInst(f, ib, Len(f.body[ib]), Load(I(slot)))
             l  == Len(g.ins)
             h  == [g EXCEPT !.ins[u].ops = [p \in DOMAIN @ |->
                       IF @[p] = I(i) /\ g.ins[u].blks[p] = ib THEN I(l) ELSE @[p]]]
         IN  DemotePhiUse(h, i, slot, u, bs \ {ib})

DemoteUse(f, i, slot, u) ==
    IF IsPhi(f.ins[u])
    THEN DemotePhiUse(f, i, slot, u,
            {f.ins[u].blks[p] : p \in {q \in DOMAIN f.ins[u].ops : f.ins[u].ops[q] = I(i)}})
    ELSE LET g == InsertBefore(f, u, Load(I(slot)))
         IN  ReplaceOps(g, u, I(i), I(Len(g.ins)))

RECURSIVE DemoteUsers(_, _, _, _)
DemoteUsers(f, i, slot, us) ==
    IF us = {} THEN f
    ELSE DemoteUsers(DemoteUse(f, i, slot, SetMin(us)), i, slot, us \ {SetMin(us)})

DemoteRegToStack(f, i, allocaPoint) ==
    IF Users(f, i) = {} THEN eraseFromParent(f, i)
    ELSE LET f1   == InsertBefore(f, allocaPoint, Alloca)
             slot == Len(f1.ins)
             f2   == DemoteUsers(f1, i, slot, Users(f1, i))
             b    == BlockOf(f2, i)
         IN  AddInst(f2, b, PastPhis(f2, b, PosOf(f2, i) + 1), Store(I(i), I(slot)))

\* MergeCalls::valueEscapes
valueEscapes(f, i) ==
    \E u \in Users(f, i) : BlockOf(f, u) # BlockOf(f, i) \/ IsPhi(f.ins[u])

-----------------------------------------------------------------------------
(* The collector, lines 34-55. *)

RECURSIVE Flatten(_, _)
Flatten(f, k) ==
    IF k > Len(f.layout) THEN <<>> ELSE f.body[f.layout[k]] \o Flatten(f, k + 1)

\* The scan without its third `continue`.
Eligible_NoIntrinsicCheck(r) ==
    /\ r.op = "call"
    /\ r.ck # "asm"
    /\ r.ck # "indirect"

\* The three `continue`s of the scan.
Eligible(r) ==
    /\ r.op = "call"
    /\ r.ck # "asm"
    /\ r.ck # "indirect"
    /\ ~isIntrinsic(r.callee)

Collect(f) ==
    LET scan == Flatten(f, 1)
        ts   == {f.ins[i].callee : i \in {j \in Range(scan) : Eligible(f.ins[j])}}
    IN  [t \in ts |->
            LET Calls(i) == Eligible(f.ins[i]) /\ f.ins[i].callee = t
            IN  SelectSeq(scan, Calls)]

\* The test with its bound off by one: callers.size() > 0.
Merges_Single(callers) == Len(callers) > MergeThreshold - 1

\* if(callers.size() > 1)
Merges(callers) == Len(callers) > MergeThreshold

-----------------------------------------------------------------------------
(* The rewriter, lines 62-101. *)

\* Lines 65-69: the placeholder goes before the first instruction of the entry
\* block that is not an alloca.
PlaceAllocaPoint(f) ==
    AddInst(f, getEntryBlock(f), PastAllocas(f, getEntryBlock(f)), BitCast)

\* Line 62: BasicBlock::Create appends an empty block to the function.
CreateBlock(f) ==
    [f EXCEPT !.layout = Append(@, Len(f.body) + 1), !.body = Append(@, <<>>)]

\* Lines 80-83.
ToDemote(f, parentBlock) ==
    LET Esc(i) == /\ ~(IsAlloca(f.ins[i]) /\ BlockOf(f, i) = getEntryBlock(f))
                  /\ valueEscapes(f, i)
    IN  SelectSeq(f.body[parentBlock], Esc)

\* Lines 85-87.
RECURSIVE DemoteAll(_, _, _)
DemoteAll(f, list, ap) ==
    IF list = <<>> THEN f
    ELSE DemoteAll(DemoteRegToStack(f, Head(list), ap), Tail(list), ap)

\* Lines 93-96.
DemoteCall(f, caller, ap) ==
    IF Users(f, caller) # {} THEN DemoteRegToStack(f, caller, ap) ELSE f

\* Lines 73-100 for one caller: the function after the iteration.
RewriteCaller(f, caller, cb, ap) ==
    LET parentBlock == BlockOf(f, caller)
        f1 == splitBasicBlock(f, parentBlock, PosOf(f, caller) + 1)
        returnBlock == Len(f1.body)
        f2 == DemoteAll(f1, ToDemote(f1, parentBlock), ap)
        f3 == moveBefore(f2, caller, getFirstNonPHI(f2, returnBlock))
        f4 == DemoteCall(f3, caller, ap)
        f5 == AppendInst(f4, parentBlock, Br(cb))
    IN  eraseFromParent(f5, f5.body[parentBlock][Len(f5.body[parentBlock]) - 1])

-----------------------------------------------------------------------------
(* The merge block builder, lines 103-123. *)

RECURSIVE ArgPhis(_, _, _, _, _, _)
ArgPhis(f, t, callers, cb, parents, argCtr) ==
    IF argCtr > arg_size(t) THEN f
    ELSE ArgPhis(AppendInst(f, cb,
                    Phi([j \in DOMAIN callers |-> f.ins[callers[j]].ops[argCtr]],
                        [j \in DOMAIN callers |-> parents[callers[j]]])),
                 t, callers, cb, parents, argCtr + 1)

RECURSIVE EraseCallers(_, _, _)
EraseCallers(f, callers, callInstr) ==
    IF callers = <<>> THEN f
    ELSE EraseCallers(eraseFromParent(replaceAllUsesWith(f, Head(callers), callInstr),
                                      Head(callers)),
                      Tail(callers), callInstr)

\* The builder with the loop of lines 119-123 cut short by one caller.
BuildCall_KeepLast(f, t, callers, cb, parents) ==
    LET f1 == ArgPhis(f, t, callers, cb, parents, 1)
        f2 == AppendInst(f1, cb, Call(t, [a \in 1..arg_size(t) |-> I(Len(f.ins) + a)]))
    IN  EraseCallers(f2, SubSeq(callers, 1, Len(callers) - 1), Len(f2.ins))

BuildCall(f, t, callers, cb, parents) ==
    LET f1 == ArgPhis(f, t, callers, cb, parents, 1)
        f2 == AppendInst(f1, cb, Call(t, [a \in 1..arg_size(t) |-> I(Len(f.ins) + a)]))
    IN  EraseCallers(f2, callers, Len(f2.ins))

-----------------------------------------------------------------------------
(* The return router, lines 126-135.  `order` is the iteration order of       *)
(* callerToRet, a std::map keyed by BasicBlock*: the order of the addresses   *)
(* of the predecessor blocks.                                                 *)

SwitchTag(switchCtr) == switchCtr

\* The router leaving the first entry to the switch's default destination.
Route_FirstByDefault(f, cb, callInstr, rets, order) ==
    LET f1 == InsertBefore(f, callInstr,
                  Phi([j \in DOMAIN order |-> C(SwitchTag(j - 1))], order))
        whereFromNode == Len(f1.ins)
    IN  AppendInst(f1, cb,
            Switch(I(whereFromNode),
                   <<rets[order[1]]>> \o [j \in 1..(Len(order) - 1) |-> rets[order[j + 1]]],
                   [j \in 1..(Len(order) - 1) |-> SwitchTag(j)]))

Route(f, cb, callInstr, rets, order) ==
    LET f1 == InsertBefore(f, callInstr,
                  Phi([j \in DOMAIN order |-> C(SwitchTag(j - 1))], order))
        whereFromNode == Len(f1.ins)
    IN  AppendInst(f1, cb,
            Switch(I(whereFromNode),
                   <<rets[order[1]]>> \o [j \in DOMAIN order |-> rets[order[j]]],
                   [j \in DOMAIN order |-> SwitchTag(j - 1)]))

Perms(S) == {s \in [1..Cardinality(S) -> S] : \A x \in S : \E p \in DOMAIN s : s[p] = x}

Put(m, k, v) == [x \in DOMAIN m \cup {k} |-> IF x = k THEN v ELSE m[x]]

-----------------------------------------------------------------------------
(* The input functions.  Each is well-formed IR: every block ends in one      *)
(* terminator and every use is dominated by its definition.                   *)

UseName(j) == CASE j = 1 -> "useA" [] j = 2 -> "useB" [] j = 3 -> "useC" [] OTHER -> "useD"

\* The scenario of the specification with k call sites: the entry block
\* dispatches on the argument to block j + 1, which is
\*     r = call g(x_j) ; call use_j(r) ; ret
\* With sameUse the k consumers call one function, a second group.
Diamond(k, sameUse) ==
    [layout |-> [b \in 1..(k + 1) |-> b],
     body   |-> [b \in 1..(k + 1) |->
                    IF b = 1 THEN <<1>> ELSE <<3 * b - 4, 3 * b - 3, 3 * b - 2>>],
     ins    |-> [n \in 1..(3 * k + 1) |->
                    IF n = 1
                    THEN Switch(Arg, <<2>> \o [j \in 1..(k - 1) |-> j + 2],
                                [j \in 1..(k - 1) |-> j])
                    ELSE LET j == (n + 1) \div 3
                             r == (n + 1) % 3
                         IN  CASE r = 0 -> Call("g", <<IF j = 1 THEN Arg ELSE C(10 + j)>>)
                               [] r = 1 -> Call(IF sameUse THEN "use" ELSE UseName(j),
                                                <<I(n - 1)>>)
                               [] OTHER -> Ret]]

\* k call sites in one block, each passing the result of the one before:
\*     r1 = call g(arg) ; r2 = call g(r1) ; ... ; call useA(rk) ; call useB(r1) ; ret
Chain(k) ==
    [layout |-> <<1>>,
     body   |-> <<[n \in 1..(k + 3) |-> n]>>,
     ins    |-> [n \in 1..(k + 3) |->
                    CASE n = 1 -> Call("g", <<Arg>>)
                      [] n \in 2..k -> Call("g", <<I(n - 1)>>)
                      [] n = k + 1 -> Call("useA", <<I(k)>>)
                      [] n = k + 2 -> Call("useB", <<I(1)>>)
                      [] OTHER -> Ret]]

\* k pairs in one block, two groups with all their sites in it:
\*     r1 = call g(arg) ; call use(r1) ; r2 = call g(r1) ; call use(r2) ; ... ; ret
Interleaved(k) ==
    [layout |-> <<1>>,
     body   |-> <<[n \in 1..(2 * k + 1) |-> n]>>,
     ins    |-> [n \in 1..(2 * k + 1) |->
                    CASE n = 1 -> Call("g", <<Arg>>)
                      [] n = 2 * k + 1 -> Ret
                      [] n % 2 = 0 -> Call("use", <<I(n - 1)>>)
                      [] OTHER -> Call("g", <<I(n - 2)>>)]]

\* A value defined in a block that dominates one call site only and read in
\* that site's continuation.
CrossDom ==
    [layout |-> <<1, 2, 3, 4>>,
     body   |-> << <<1>>, <<2, 3>>, <<4, 5, 6>>, <<7, 8>> >>,
     ins    |-> << CondBr(Arg, 2, 4),
                   Dec(Arg), Br(3),
                   Call("g", <<C(1)>>), Call("useA", <<I(2)>>), Ret,
                   Call("g", <<C(2)>>), Ret >>]

\* Values defined ahead of a call whose result nobody reads, and read after
\* it: an entry-block stack slot, a computed value read in the same block and
\* in a later one.
Escape ==
    [layout |-> <<1, 2, 3>>,
     body   |-> << <<1, 2, 3, 4, 5, 6, 7, 8>>, <<9, 10, 11>>, <<12>> >>,
     ins    |-> << Alloca, Store(Arg, I(1)), Dec(Arg), Call("g", <<I(3)>>),
                   Load(I(1)), Call("useA", <<I(3)>>), Call("useB", <<I(5)>>),
                   CondBr(Arg, 2, 3),
                   Call("g", <<C(5)>>), Call("useC", <<I(3)>>), Ret,
                   Ret >>]

\* A call site in a loop; the loop's PHI and counter are read after the call
\* and by the PHI itself.
Loop ==
    [layout |-> <<1, 2, 3>>,
     body   |-> << <<1>>, <<2, 3, 4, 5>>, <<6, 7>> >>,
     ins    |-> << Br(2),
                   Phi(<<Arg, I(3)>>, <<1, 2>>), Dec(I(2)), Call("g", <<I(3)>>),
                   CondBr(I(3), 2, 3),
                   Call("g", <<I(2)>>), Ret >>]

\* A call site in a loop whose result feeds a PHI of the loop header.
LoopRes ==
    [layout |-> <<1, 2, 3>>,
     body   |-> << <<1>>, <<2, 3, 4, 5, 6>>, <<7, 8>> >>,
     ins    |-> << Br(2),
                   Phi(<<Arg, I(4)>>, <<1, 2>>), Phi(<<C(0), I(5)>>, <<1, 2>>),
                   Dec(I(2)), Call("g", <<I(3)>>), CondBr(I(4), 2, 3),
                   Call("g", <<I(3)>>), Ret >>]

\* Pairs of inline-assembly, indirect and intrinsic calls and a lone call of g0;
\* with withGroup, two calls of g that read results of the others.
Ineligible(withGroup) ==
    [layout |-> <<1>>,
     body   |-> <<[n \in 1..(IF withGroup THEN 11 ELSE 9) |-> n]>>,
     ins    |-> << AsmCall(<<Arg>>), AsmCall(<<Arg>>), PtrCall(<<Arg>>), PtrCall(<<I(1)>>),
                   Call("llvm.ctpop", <<I(3)>>), Call("llvm.ctpop", <<I(3)>>),
                   Call("g0", <<>>), Call("useA", <<I(5)>>) >>
                \o (IF withGroup
                    THEN <<Call("g", <<I(5)>>), Call("g", <<I(6)>>), Ret>>
                    ELSE <<Ret>>)]

\* Two calls of a two-parameter callee in one block.
TwoArg ==
    [layout |-> <<1>>,
     body   |-> << <<1, 2, 3, 4>> >>,
     ins    |-> << Dec(Arg), Call("h", <<C(1), I(1)>>), Call("h", <<Arg, C(2)>>), Ret >>]

Programs ==
    {Diamond(k, s) : k \in 2..MaxSites, s \in BOOLEAN}
        \cup {Chain(k) : k \in 2..MaxSites}
        \cup {Interleaved(k) : k \in 2..MaxSites}
        \cup {CrossDom, Escape, Loop, LoopRes, Ineligible(TRUE), Ineligible(FALSE), TwoArg}

Inputs == 0..(MaxSites - 1)

-----------------------------------------------------------------------------
(* Execution of a function: the callees are external, each invocation is      *)
(* recorded and returns a fresh value; a load of a slot nothing was stored to *)
(* yields any value of UndefVals.  The PHIs of a block are evaluated in       *)
(* order; no input has a PHI that reads another PHI of its block.             *)

RetVal(n) == 100 + n
UndefVals == {0, 7}

ExInit(f) ==
    [blk |-> getEntryBlock(f), pos |-> 1, prev |-> 0,
     env |-> [i \in DOMAIN f.ins |-> 0], defd |-> {},
     mem |-> [i \in DOMAIN f.ins |-> 0], written |-> {},
     trace |-> <<>>, siteVal |-> [i \in DOMAIN f.ins |-> 0],
     status |-> "run", steps |-> 0, uninit |-> FALSE]

Val(x, o) == CASE o.k = "c" -> o.v [] o.k = "a" -> inp [] OTHER -> x.env[o.v]
Defined(x, o) == o.k = "i" => o.v \in x.defd
Cur(f, x) == f.body[x.blk][x.pos]
PhiPos(r, x) == SetMin({p \in DOMAIN r.blks : r.blks[p] = x.prev})

\* The call site a call serves: itself, or for the call of a shared block the
\* site whose branch control arrived through.
SiteOf(f, x, i) ==
    LET cs == {c \in DOMAIN siteInfo :
                  /\ siteInfo[c].callBlock = x.blk
                  /\ siteInfo[c].branch \in Live(f)
                  /\ BlockOf(f, siteInfo[c].branch) = x.prev}
    IN  IF cs = {} THEN i ELSE SetMin(cs)

Define(x, i, v) ==
    [x EXCEPT !.env[i] = v, !.defd = @ \cup {i}, !.pos = @ + 1, !.steps = @ + 1]
Jump(x, b) == [x EXCEPT !.prev = x.blk, !.blk = b, !.pos = 1, !.steps = @ + 1]
Stuck(x) == [x EXCEPT !.status = "stuck"]

StepSet(f, x, merged) ==
    LET i == Cur(f, x)
        r == f.ins[i]
        read == IF IsPhi(r)
                THEN IF \E p \in DOMAIN r.blks : r.blks[p] = x.prev
                     THEN {r.ops[PhiPos(r, x)]} ELSE {I(0)}
                ELSE Range(r.ops)
    IN  IF \E o \in read : ~Defined(x, o) THEN {Stuck(x)}
        ELSE CASE r.op = "call" ->
                    LET t == Append(x.trace, [callee |-> r.callee, ck |-> r.ck,
                                              args |-> [p \in DOMAIN r.ops |-> Val(x, r.ops[p])]])
                        s == IF merged THEN SiteOf(f, x, i) ELSE i
                    IN  {[Define(x, i, RetVal(Len(t))) EXCEPT
                              !.trace = t, !.siteVal[s] = RetVal(Len(t))]}
               [] r.op = "dec" -> {Define(x, i, Val(x, r.ops[1]) - 1)}
               [] r.op = "bitcast" -> {Define(x, i, Val(x, r.ops[1]))}
               [] r.op = "alloca" -> {Define(x, i, i)}
               [] r.op = "load" ->
                    IF Val(x, r.ops[1]) \in x.written
                    THEN {Define(x, i, x.mem[Val(x, r.ops[1])])}
                    ELSE {[Define(x, i, v) EXCEPT !.uninit = TRUE] : v \in UndefVals}
               [] r.op = "store" ->
                    {[x EXCEPT !.mem[Val(x, r.ops[2])] = Val(x, r.ops[1]),
                               !.written = @ \cup {Val(x, r.ops[2])},
                               !.pos = @ + 1, !.steps = @ + 1]}
               [] r.op = "phi" -> {Define(x, i, Val(x, r.ops[PhiPos(r, x)]))}
               [] r.op = "br" -> {Jump(x, r.blks[1])}
               [] r.op = "condbr" ->
                    {Jump(x, IF Val(x, r.ops[1]) > 0 THEN r.blks[1] ELSE r.blks[2])}
               [] r.op = "switch" ->
                    LET hit == {p \in DOMAIN r.tags : r.tags[p] = Val(x, r.ops[1])}
                    IN  {Jump(x, IF hit = {} THEN r.blks[1] ELSE r.blks[SetMin(hit) + 1])}
               [] OTHER -> {[x EXCEPT !.status = "halt"]}

-----------------------------------------------------------------------------
(* The state machine. *)

Init ==
    /\ orig \in Programs
    /\ inp = 0
    /\ fn = orig
    /\ pc = "collect"
    /\ run = 1
    /\ start = orig
    /\ todo = {}
    /\ funcToInvokers = <<>>
    /\ target = ""
    /\ ci = 0
    /\ callBlock = 0
    /\ AllocaInsertionPoint = 0
    /\ callerToRet = <<>>
    /\ callerToOrigParent = <<>>
    /\ siteInfo = <<>>
    /\ groupInfo = <<>>
    /\ ex = ExInit(orig)
    /\ otrace = <<>>

\* Lines 32-55.
DoCollect ==
    /\ pc = "collect"
    /\ funcToInvokers' = Collect(fn)
    /\ todo' = DOMAIN Collect(fn)
    /\ start' = fn
    /\ pc' = "group"
    /\ UNCHANGED <<orig, inp, fn, run, target, ci, callBlock, AllocaInsertionPoint,
                   callerToRet, callerToOrigParent, siteInfo, groupInfo, ex, otrace>>

\* Lines 57-58: the next entry of funcToInvokers, a std::map keyed by Function*,
\* is the one at the lowest address not yet visited; a group of one is passed over.
SkipGroup ==
    /\ pc = "group"
    /\ \E t \in todo :
          /\ ~Merges(funcToInvokers[t])
          /\ todo' = todo \ {t}
    /\ UNCHANGED <<orig, inp, fn, pc, run, start, funcToInvokers, target, ci, callBlock,
                   AllocaInsertionPoint, callerToRet, callerToOrigParent, siteInfo,
                   groupInfo, ex, otrace>>

\* Lines 58-69.
BeginGroup ==
    /\ pc = "group"
    /\ \E t \in todo :
          /\ Merges(funcToInvokers[t])
          /\ target' = t
    /\ fn' = PlaceAllocaPoint(CreateBlock(fn))
    /\ callBlock' = Len(fn.body) + 1
    /\ AllocaInsertionPoint' = Len(fn.ins) + 1
    /\ callerToRet' = <<>>
    /\ callerToOrigParent' = <<>>
    /\ ci' = 1
    /\ pc' = "caller"
    /\ UNCHANGED <<orig, inp, run, start, todo, funcToInvokers, siteInfo, groupInfo,
                   ex, otrace>>

\* Lines 71-101, one iteration.
DoCaller ==
    /\ pc = "caller"
    /\ ci <= Len(funcToInvokers[target])
    /\ LET caller == funcToInvokers[target][ci]
           parentBlock == BlockOf(fn, caller)
           returnBlock == Len(fn.body) + 1
       IN  /\ fn' = RewriteCaller(fn, caller, callBlock, AllocaInsertionPoint)
           /\ callerToOrigParent' = Put(callerToOrigParent, caller, parentBlock)
           /\ callerToRet' = Put(callerToRet, parentBlock, returnBlock)
           /\ siteInfo' = Put(siteInfo, caller,
                              [target |-> target, callBlock |-> callBlock,
                               parent |-> parentBlock, ret |-> returnBlock,
                               branch |-> Len(fn'.ins)])
    /\ ci' = ci + 1
    /\ UNCHANGED <<orig, inp, pc, run, start, todo, funcToInvokers, target, callBlock,
                   AllocaInsertionPoint, groupInfo, ex, otrace>>

\* Lines 103-123.
DoBuild ==
    /\ pc = "caller"
    /\ ci > Len(funcToInvokers[target])
    /\ fn' = BuildCall(fn, target, funcToInvokers[target], callBlock, callerToOrigParent)
    /\ groupInfo' = Put(groupInfo, target,
                        [callBlock |-> callBlock, callers |-> funcToInvokers[target],
                         callInstr |-> Len(fn'.ins)])
    /\ pc' = "route"
    /\ UNCHANGED <<orig, inp, run, start, todo, funcToInvokers, target, ci, callBlock,
                   AllocaInsertionPoint, callerToRet, callerToOrigParent, siteInfo,
                   ex, otrace>>

\* Lines 126-135.
DoRoute ==
    /\ pc = "route"
    /\ \E order \in Perms(DOMAIN callerToRet) :
          fn' = Route(fn, callBlock, groupInfo[target].callInstr, callerToRet, order)
    /\ todo' = todo \ {target}
    /\ pc' = "group"
    /\ UNCHANGED <<orig, inp, run, start, funcToInvokers, target, ci, callBlock,
                   AllocaInsertionPoint, callerToRet, callerToOrigParent, siteInfo,
                   groupInfo, ex, otrace>>

\* Line 139.
Finish ==
    /\ pc = "group"
    /\ todo = {}
    /\ pc' = "done"
    /\ UNCHANGED <<orig, inp, fn, run, start, todo, funcToInvokers, target, ci, callBlock,
                   AllocaInsertionPoint, callerToRet, callerToOrigParent, siteInfo,
                   groupInfo, ex, otrace>>

\* The pass is run again on its own output.
Rerun ==
    /\ pc = "done"
    /\ run < MaxRuns
    /\ run' = run + 1
    /\ pc' = "collect"
    /\ UNCHANGED <<orig, inp, fn, start, todo, funcToInvokers, target, ci, callBlock,
                   AllocaInsertionPoint, callerToRet, callerToOrigParent, siteInfo,
                   groupInfo, ex, otrace>>

\* The input function is executed on some argument, then the transformed one on
\* the same argument.
ExecStart ==
    /\ pc = "done"
    /\ pc' = "execO"
    /\ inp' \in Inputs
    /\ ex' = ExInit(orig)
    /\ UNCHANGED <<orig, fn, run, start, todo, funcToInvokers, target, ci, callBlock,
                   AllocaInsertionPoint, callerToRet, callerToOrigParent, siteInfo,
                   groupInfo, otrace>>

ExecOrig ==
    /\ pc = "execO"
    /\ ex.status = "run"
    /\ ex.steps < MaxExecSteps
    /\ ex' \in StepSet(orig, ex, FALSE)
    /\ UNCHANGED <<orig, inp, fn, pc, run, start, todo, funcToInvokers, target, ci,
                   callBlock, AllocaInsertionPoint, callerToRet, callerToOrigParent,
                   siteInfo, groupInfo, otrace>>

ExecSwitch ==
    /\ pc = "execO"
    /\ ex.status = "halt"
    /\ otrace' = ex.trace
    /\ ex' = ExInit(fn)
    /\ pc' = "execN"
    /\ UNCHANGED <<orig, inp, fn, run, start, todo, funcToInvokers, target, ci, callBlock,
                   AllocaInsertionPoint, callerToRet, callerToOrigParent, siteInfo,
                   groupInfo>>

ExecNew ==
    /\ pc = "execN"
    /\ ex.status = "run"
    /\ ex.steps < MaxExecSteps
    /\ ex' \in StepSet(fn, ex, TRUE)
    /\ UNCHANGED <<orig, inp, fn, pc, run, start, todo, funcToInvokers, target, ci,
                   callBlock, AllocaInsertionPoint, callerToRet, callerToOrigParent,
                   siteInfo, groupInfo, otrace>>

Next ==
    \/ DoCollect
    \/ SkipGroup
    \/ BeginGroup
    \/ DoCaller
    \/ DoBuild
    \/ DoRoute
    \/ Finish
    \/ Rerun

\* The pass alone, run MaxRuns times.
Spec == Init /\ [][Next]_vars

NextExec ==
    \/ Next
    \/ ExecStart
    \/ ExecOrig
    \/ ExecSwitch
    \/ ExecNew

\* The pass, and then the input and the output executed.
SpecExec == Init /\ [][NextExec]_vars

-----------------------------------------------------------------------------
(* What the claims speak of, stated on the input function and on the IR the   *)
(* pass leaves, independently of the pass's own bookkeeping where possible.   *)

\* The pass has returned: fn is its output.
Finished == pc \in {"done", "execO", "execN"}

DirectCalls(f, t) ==
    {i \in Live(f) : f.ins[i].op = "call" /\ f.ins[i].ck = "direct" /\ f.ins[i].callee = t}
NeverMerged(f) ==
    {i \in Live(f) : /\ f.ins[i].op = "call"
                     /\ \/ f.ins[i].ck \in {"asm", "indirect"}
                        \/ f.ins[i].callee \in Intrinsics}
CalledTargets(f) ==
    {f.ins[i].callee : i \in {j \in Live(f) : f.ins[j].op = "call" /\ f.ins[j].ck = "direct"}}
        \ Intrinsics
\* The targets with two or more eligible call sites.
GroupTargets(f) == {t \in CalledTargets(f) : Cardinality(DirectCalls(f, t)) >= 2}

\* The block a site's control leaves through: the block of the branch to the
\* shared block that line 99 made for the site.
SitePred(c) == BlockOf(fn, siteInfo[c].branch)
SharedSwitch(t) == fn.ins[getTerminator(fn, groupInfo[t].callBlock)]
Discriminator(t) == fn.ins[SharedSwitch(t).ops[1].v]

\* Control-flow dominance and SSA well-formedness, as the IR verifier has them.
RECURSIVE ReachAvoiding(_, _, _)
ReachAvoiding(f, S, a) ==
    LET N == S \cup {s \in UNION {Successors(f, b) : b \in S} : s # a}
    IN  IF N = S THEN S ELSE ReachAvoiding(f, N, a)
Reachable(f) == ReachAvoiding(f, {getEntryBlock(f)}, 0)
Dominates(f, a, b) ==
    \/ a = b
    \/ a = getEntryBlock(f)
    \/ b \notin ReachAvoiding(f, {getEntryBlock(f)}, a)
UseOK(f, u, p) ==
    LET d == f.ins[u].ops[p].v
    IN  /\ d \in Live(f)
        /\ IF IsPhi(f.ins[u])
           THEN Dominates(f, BlockOf(f, d), f.ins[u].blks[p])
           ELSE IF BlockOf(f, d) = BlockOf(f, u)
                THEN PosOf(f, d) < PosOf(f, u)
                ELSE Dominates(f, BlockOf(f, d), BlockOf(f, u))
SSAok(f) ==
    \A u \in Live(f) :
        BlockOf(f, u) \in Reachable(f) =>
            \A p \in DOMAIN f.ins[u].ops : f.ins[u].ops[p].k = "i" => UseOK(f, u, p)

\* The value an operand of the input function denotes at the current point of
\* an execution of the transformed function: for the result of a merged call
\* site, what the shared call returned on the last pass through that site.
ExpectedVal(o) ==
    IF o.k = "i" /\ o.v \in DOMAIN siteInfo THEN ex.siteVal[o.v] ELSE Val(ex, o)

\* The transformed function is about to execute instruction u of the input
\* function, reading its operand p.
Reads(u, p) ==
    /\ pc = "execN"
    /\ ex.status = "run"
    /\ Cur(fn, ex) = u
    /\ u \in DOMAIN orig.ins
    /\ p \in DOMAIN orig.ins[u].ops
    /\ IsPhi(orig.ins[u]) => PhiPos(fn.ins[u], ex) = p
ReadsRight(u, p) ==
    /\ Defined(ex, fn.ins[u].ops[p])
    /\ Val(ex, fn.ins[u].ops[p]) = ExpectedVal(orig.ins[u].ops[p])

-----------------------------------------------------------------------------
(* The claims. *)

\* C1: every consumer of a merged call site's result reads, on every pass
\* through the site, the value the shared call returned on that pass.
C1_ConsumersReadSharedResult ==
    \A u \in DOMAIN orig.ins : \A p \in DOMAIN orig.ins[u].ops :
        (Reads(u, p) /\ orig.ins[u].ops[p].k = "i" /\ orig.ins[u].ops[p].v \in DOMAIN siteInfo)
            => ReadsRight(u, p)

\* C2: the transformed function runs to its return and has made the same
\* callee invocations, with the same arguments, in the same order as the input.
C2_SameInvocations ==
    (pc = "execN" /\ ex.status # "run") => (ex.status = "halt" /\ ex.trace = otrace)

\* C3: each target with two or more eligible call sites is left with exactly
\* one call instruction, and it is in the shared block made for that target.
C3_OneCallPerGroup ==
    Finished =>
        \A t \in GroupTargets(orig) :
            /\ Cardinality(DirectCalls(fn, t)) = 1
            /\ t \in DOMAIN groupInfo
            /\ \A i \in DirectCalls(fn, t) : BlockOf(fn, i) = groupInfo[t].callBlock
            /\ \A s \in DOMAIN groupInfo :
                   s # t => groupInfo[s].callBlock # groupInfo[t].callBlock

C3_Witness ==
    /\ pc = "done"
    /\ Cardinality(GroupTargets(orig)) >= 2
    /\ DOMAIN groupInfo = GroupTargets(orig)
    /\ \E t \in GroupTargets(orig) :
          \E i, j \in DirectCalls(orig, t) : i # j /\ BlockOf(orig, i) = BlockOf(orig, j)

\* C4: when the pass has returned, each shared block's switch has k cases
\* with distinct tags, the discriminator has one incoming pair per predecessor
\* of the shared block, and the tag coming from a site's predecessor has a
\* case of its own whose target is the continuation split off at that site.
C4_Routing ==
    Finished =>
        \A t \in DOMAIN groupInfo :
            LET sw == SharedSwitch(t)
                ph == Discriminator(t)
                cb == groupInfo[t].callBlock
                cs == groupInfo[t].callers
            IN  /\ sw.op = "switch"
                /\ IsPhi(ph)
                /\ Len(sw.tags) = Len(cs)
                /\ \A a, b \in DOMAIN sw.tags : a # b => sw.tags[a] # sw.tags[b]
                /\ Len(ph.blks) = Cardinality(Predecessors(fn, cb))
                /\ Range(ph.blks) = Predecessors(fn, cb)
                /\ \A j \in DOMAIN cs :
                      LET ins == {p \in DOMAIN ph.blks : ph.blks[p] = SitePred(cs[j])}
                      IN  /\ Cardinality(ins) = 1
                          /\ \A p \in ins :
                                LET hit == {q \in DOMAIN sw.tags : sw.tags[q] = ph.ops[p].v}
                                IN  /\ ph.ops[p].k = "c"
                                    /\ Cardinality(hit) = 1
                                    /\ \A q \in hit : sw.blks[q + 1] = siteInfo[cs[j]].ret

C4_Witness ==
    /\ pc = "done"
    /\ \E t \in DOMAIN groupInfo :
          /\ Len(groupInfo[t].callers) = MaxSites
          /\ \E j \in DOMAIN groupInfo[t].callers :
                SitePred(groupInfo[t].callers[j]) # siteInfo[groupInfo[t].callers[j]].parent

\* C5: the shared block holds one argument PHI per declared parameter, each
\* with one incoming pair per call site in call-site order, the shared call
\* takes them in parameter order, and the value PHI i receives from site j's
\* predecessor is the i-th argument site j passed in the input function.
C5_ArgPhiShape ==
    Finished =>
        \A t \in DOMAIN groupInfo :
            LET cb   == groupInfo[t].callBlock
                cs   == groupInfo[t].callers
                call == fn.ins[groupInfo[t].callInstr]
                phis == {i \in Range(fn.body[cb]) :
                            IsPhi(fn.ins[i]) /\ i # SharedSwitch(t).ops[1].v}
            IN  /\ Cardinality(phis) = arg_size(t)
                /\ Len(call.ops) = arg_size(t)
                /\ \A a \in DOMAIN call.ops :
                      /\ call.ops[a].k = "i"
                      /\ call.ops[a].v \in phis
                      /\ \A b \in DOMAIN call.ops : b < a => call.ops[b].v < call.ops[a].v
                      /\ Len(fn.ins[call.ops[a].v].blks) = Len(cs)
                      /\ \A j \in DOMAIN cs :
                            fn.ins[call.ops[a].v].blks[j] = SitePred(cs[j])

C5_ArgPhiValue ==
    \A t \in DOMAIN groupInfo :
        (pc = "execN" /\ ex.status = "run" /\ Cur(fn, ex) = groupInfo[t].callInstr)
            => \A a \in DOMAIN fn.ins[groupInfo[t].callInstr].ops :
                   /\ Defined(ex, fn.ins[groupInfo[t].callInstr].ops[a])
                   /\ Val(ex, fn.ins[groupInfo[t].callInstr].ops[a])
                        = ExpectedVal(orig.ins[SiteOf(fn, ex, 0)].ops[a])

C5_ArgPhis == C5_ArgPhiShape /\ C5_ArgPhiValue

\* C6: a value defined in a call site's block ahead of the call and read after
\* the merge point is read with the value it has in the input function; a
\* stack slot of the entry block is still read directly.
AheadOfSite(x) ==
    \E c \in DOMAIN siteInfo :
        /\ c \in Live(orig)
        /\ x \in Live(orig)
        /\ BlockOf(orig, x) = BlockOf(orig, c)
        /\ PosOf(orig, x) < PosOf(orig, c)
        /\ orig.ins[x].op \notin {"store", "br", "condbr", "switch", "ret"}
AfterMerge(x, u) ==
    \E c \in DOMAIN siteInfo :
        /\ c \in Live(orig)
        /\ BlockOf(orig, x) = BlockOf(orig, c)
        /\ PosOf(orig, x) < PosOf(orig, c)
        /\ \/ BlockOf(orig, u) # BlockOf(orig, c)
           \/ PosOf(orig, u) > PosOf(orig, c)
           \/ IsPhi(orig.ins[u])
EntrySlot(x) == IsAlloca(orig.ins[x]) /\ BlockOf(orig, x) = getEntryBlock(orig)

C6_EscapingValuesPreserved ==
    \A u \in DOMAIN orig.ins : \A p \in DOMAIN orig.ins[u].ops :
        LET o == orig.ins[u].ops[p]
        IN  (Reads(u, p) /\ o.k = "i" /\ AheadOfSite(o.v) /\ AfterMerge(o.v, u))
                => /\ ReadsRight(u, p)
                   /\ EntrySlot(o.v) => fn.ins[u].ops[p] = o

\* C7: the site that is t-th in the collector's scan gets tag t and the t-th
\* case of the switch, whatever the addresses of the blocks.
C7_TagsInScanOrder ==
    Finished =>
        \A t \in DOMAIN groupInfo :
            LET sw == SharedSwitch(t)
                ph == Discriminator(t)
                cs == groupInfo[t].callers
            IN  \A j \in DOMAIN cs :
                    /\ ph.blks[j] = SitePred(cs[j])
                    /\ ph.ops[j] = C(j - 1)
                    /\ sw.tags[j] = j - 1
                    /\ sw.blks[j + 1] = siteInfo[cs[j]].ret

\* C8: inline-assembly, indirect and intrinsic calls are never grouped, never
\* erased and never replaced, and no shared block is made for them.
C8_IneligibleUntouched ==
    /\ \A i \in NeverMerged(orig) :
          /\ i \in Live(fn)
          /\ fn.ins[i].op = "call"
          /\ fn.ins[i].ck = orig.ins[i].ck
          /\ fn.ins[i].callee = orig.ins[i].callee
          /\ Len(fn.ins[i].ops) = Len(orig.ins[i].ops)
    /\ \A t \in DOMAIN funcToInvokers :
          /\ t \notin Intrinsics
          /\ \A j \in DOMAIN funcToInvokers[t] : funcToInvokers[t][j] \notin NeverMerged(orig)
    /\ \A c \in DOMAIN siteInfo : c \notin NeverMerged(orig)
    /\ \A t \in DOMAIN groupInfo :
          /\ t \in GroupTargets(orig)
          /\ \A i \in Range(fn.body[groupInfo[t].callBlock]) :
                fn.ins[i].op = "call" => i \in DirectCalls(fn, t)
    /\ Finished => Len(fn.body) = Len(orig.body) + Cardinality(DOMAIN siteInfo)
                                      + Cardinality(GroupTargets(orig))

C8_Witness ==
    /\ pc = "done"
    /\ groupInfo # <<>>
    /\ \E a, b, c, d, e, g \in NeverMerged(orig) :
          /\ a # b /\ orig.ins[a].ck = "asm" /\ orig.ins[b].ck = "asm"
          /\ c # d /\ orig.ins[c].ck = "indirect" /\ orig.ins[d].ck = "indirect"
          /\ e # g /\ orig.ins[e].callee \in Intrinsics /\ orig.ins[g].callee \in Intrinsics

\* C9: a run of the pass on a function in which no target has two or more
\* eligible call sites, and so every run after the first, changes nothing.
C9_Idempotent ==
    pc = "done" =>
        /\ run > 1 => GroupTargets(start) = {}
        /\ GroupTargets(start) = {} => fn = start

C9_Witness ==
    /\ pc = "done"
    /\ run = 2
    /\ fn # orig
    /\ fn = start
    /\ groupInfo # <<>>
    /\ CalledTargets(fn) # {}

\* C10: the output of the pass is well-formed SSA whenever its input is.
C10_SSAPreserved ==
    (Finished /\ SSAok(orig)) => SSAok(fn)

\* The inputs are well-formed and the input function runs to its return.
InputsWellFormed ==
    /\ SSAok(orig)
    /\ pc = "execO" => ex.status # "stuck"
    /\ (pc = "execO" /\ ex.status = "run") => ex.steps < MaxExecSteps

====
